---- MODULE Spec2Model ----
(***************************************************************************)
(* wldd-rs: `run` (src/src/lib.rs) validates the search directories, then  *)
(* for each input file validates it, extracts the PE import libraries and  *)
(* prints where each one is found in the search directories.               *)
(*                                                                         *)
(* The filesystem and the result of goblin's pe::PE::parse are the         *)
(* environment of the program: a path has a kind, an input file has an     *)
(* open/map outcome and a parse outcome.  The program text under           *)
(* src/src/lib.rs is modelled step by step: one action per loop iteration  *)
(* or statement group of `run` and `check_dependencies`.                   *)
(***************************************************************************)
EXTENDS Naturals, Sequences, FiniteSets, TLC

\* ------------------------------------------------------------- bounds
MaxDirs == 2
MaxFiles == 2
MaxDeps == 2

\* ------------------------------------------------- environment: paths
Names == {"A.dll", "KERNEL32.dll"}

SearchDirs == {"d1", "d2"}

DirArgs == SearchDirs \cup {"nodir", "notes.txt"}

FileArgs == {"missing.exe", "d1", "locked.exe", "junk.bin", "static.exe", "app.exe"}

Kinds == {"absent", "file", "dir"}

\* What the filesystem holds at a path given on the command line.
PathKind(p) ==
    CASE p \in SearchDirs -> "dir"
      [] p \in {"nodir", "missing.exe"} -> "absent"
      [] OTHER -> "file"

\* Path::exists, Path::is_file, Path::is_dir on what a path refers to.
Exists(kind) == kind # "absent"

IsFile(kind) == kind = "file"

IsDir(kind) == kind = "dir"

\* fs::File::open followed by Mmap::map: fails on an unreadable file and on
\* a directory, succeeds on a readable regular file.
OpenMapOk(p) == PathKind(p) = "file" /\ p # "locked.exe"

\* pe::PE::parse on the mapped bytes: an error, or the parsed image, of which
\* the program reads only `libraries`.
PEParse(p) ==
    CASE p = "static.exe" -> [ok |-> TRUE, libraries |-> << >>]
      [] p = "app.exe" -> [ok |-> TRUE, libraries |-> <<"KERNEL32.dll", "A.dll">>]
      [] OTHER -> [ok |-> FALSE, msg |-> "malformed"]

SeqsUpTo(S, n) == UNION {[1..m -> S] : m \in 0..n}

\* The directory contents the run is checked against.
FileSystems ==
    { [d \in SearchDirs |-> [n \in Names |-> IF n = "A.dll" THEN "file" ELSE "absent"]],
      [d \in SearchDirs |-> [n \in Names |->
            IF n = "A.dll" THEN (IF d = "d1" THEN "dir" ELSE "absent") ELSE "file"]],
      [d \in SearchDirs |-> [n \in Names |->
            IF d = "d2" /\ n = "KERNEL32.dll" THEN "file" ELSE "absent"]] }

VARIABLES
    dirs,      \* config.dirs
    files,     \* config.files
    entries,   \* entries[dir][name]: kind of the entry `name` in directory dir
    pc,        \* position in run: "dirs", "file", "parse", "deps", "check", "done"
    i,         \* index of the directory being validated
    f,         \* index of the file being processed
    parsed,    \* the value get_pe_dependencies returned for the current file
    deps,      \* the deps argument of check_dependencies
    k,         \* check_dependencies: index of the dependency
    j,         \* check_dependencies: index of the directory
    found,     \* check_dependencies: the found flag of the current dependency
    stdout,    \* lines printed with println!
    stderr,    \* lines printed with eprintln!
    result,    \* what run returned
    calls      \* history of the functions run has invoked

vars == <<dirs, files, entries, pc, i, f, parsed, deps, k, j, found,
          stdout, stderr, result, calls>>

Running == [tag |-> "running"]

Ok == [tag |-> "Ok"]

Err(kind, what) == [tag |-> "Err", kind |-> kind, what |-> what]

None == [ok |-> FALSE, none |-> TRUE]

\* ------------------------------------------------------ the functions

\* Mutant of validate_file: only the existence test.
ValidateFileExistsOnly(file) ==
    IF ~Exists(PathKind(file))
    THEN [ok |-> FALSE, err |-> Err("FileError", <<file, "No such file or directory">>)]
    ELSE [ok |-> TRUE]

\* validate_file
ValidateFile(file) ==
    IF ~Exists(PathKind(file))
    THEN [ok |-> FALSE, err |-> Err("FileError", <<file, "No such file or directory">>)]
    ELSE IF ~IsFile(PathKind(file))
    THEN [ok |-> FALSE, err |-> Err("FileError", <<file, "not regular file">>)]
    ELSE [ok |-> TRUE]

\* Mutant of validate_dir: only the existence test.
ValidateDirExistsOnly(dir) ==
    IF ~Exists(PathKind(dir))
    THEN [ok |-> FALSE, err |-> Err("InvalidDirectory", dir)]
    ELSE [ok |-> TRUE]

\* validate_dir
ValidateDir(dir) ==
    IF ~Exists(PathKind(dir)) \/ ~IsDir(PathKind(dir))
    THEN [ok |-> FALSE, err |-> Err("InvalidDirectory", dir)]
    ELSE [ok |-> TRUE]

\* The loop of get_pe_dependencies: push every library, in iteration order.
RECURSIVE PushLibraries(_, _)
PushLibraries(libraries, acc) ==
    IF libraries = << >> THEN acc
    ELSE PushLibraries(Tail(libraries), Append(acc, Head(libraries)))

\* Mutant of get_pe_dependencies: a parse error becomes an empty list.
GetPeDependenciesLenient(file_path) ==
    IF ~OpenMapOk(file_path)
    THEN [ok |-> FALSE, err |-> Err("IoError", file_path)]
    ELSE LET pe == PEParse(file_path) IN
         IF ~pe.ok
         THEN [ok |-> TRUE, deps |-> << >>]
         ELSE [ok |-> TRUE, deps |-> PushLibraries(pe.libraries, << >>)]

\* get_pe_dependencies
GetPeDependencies(file_path) ==
    IF ~OpenMapOk(file_path)
    THEN [ok |-> FALSE, err |-> Err("IoError", file_path)]
    ELSE LET pe == PEParse(file_path) IN
         IF ~pe.ok
         THEN [ok |-> FALSE, err |-> Err("PeParseError", pe.msg)]
         ELSE [ok |-> TRUE, deps |-> PushLibraries(pe.libraries, << >>)]

\* dir.join(dep): what the filesystem holds there.
JoinedKind(dir, dep) ==
    IF dir \in DOMAIN entries /\ dep \in DOMAIN entries[dir]
    THEN entries[dir][dep] ELSE "absent"

\* Mutant of the match test: dep_path.exists() in place of is_file().
DepPathExists(dir, dep) == Exists(JoinedKind(dir, dep))

\* dep_path.is_file()
DepPathIsFile(dir, dep) == IsFile(JoinedKind(dir, dep))

Max(a, b) == IF a >= b THEN a ELSE b

\* deps.iter().map(|d| d.len()).max().unwrap_or(0)
RECURSIVE MaxLen(_)
MaxLen(ds) == IF ds = << >> THEN 0 ELSE Max(Len(Head(ds)), MaxLen(Tail(ds)))

Header(file) == [kind |-> "header", file |-> file]

DepLine(label, width, target) ==
    [kind |-> "dep", label |-> label, width |-> width, target |-> target]

Notice(file) == [kind |-> "notice", file |-> file, text |-> "not a dynamic executable"]

Call(fn, arg, idx, out) == [fn |-> fn, arg |-> arg, idx |-> idx, out |-> out]

\* ------------------------------------------------------------- actions

Init ==
    /\ dirs \in SeqsUpTo(DirArgs, MaxDirs)
    /\ files \in SeqsUpTo(FileArgs, MaxFiles)
    /\ entries \in FileSystems
    /\ pc = "dirs"
    /\ i = 1
    /\ f = 1
    /\ parsed = None
    /\ deps = << >>
    /\ k = 1
    /\ j = 1
    /\ found = FALSE
    /\ stdout = << >>
    /\ stderr = << >>
    /\ result = Running
    /\ calls = << >>

\* for dir in &config.dirs { validate_dir(dir)?; }
ValidateDirStep ==
    /\ pc = "dirs"
    /\ i <= Len(dirs)
    /\ LET r == ValidateDir(dirs[i]) IN
       /\ calls' = Append(calls, Call("validate_dir", dirs[i], i, r))
       /\ IF r.ok
          THEN i' = i + 1 /\ pc' = pc /\ result' = result
          ELSE i' = i /\ pc' = "done" /\ result' = r.err
    /\ UNCHANGED <<dirs, files, entries, f, parsed, deps, k, j, found, stdout, stderr>>

\* The directory loop is exhausted: the file loop starts.
DirsValidated ==
    /\ pc = "dirs"
    /\ i > Len(dirs)
    /\ pc' = "file"
    /\ UNCHANGED <<dirs, files, entries, i, f, parsed, deps, k, j, found,
                   stdout, stderr, result, calls>>

\* Mutant of the file loop: a file that fails validation is skipped.
ValidateFileStepSkips ==
    /\ pc = "file"
    /\ f <= Len(files)
    /\ LET r == ValidateFile(files[f]) IN
       /\ calls' = Append(calls, Call("validate_file", files[f], f, r))
       /\ IF r.ok
          THEN pc' = "parse" /\ f' = f
          ELSE pc' = "file" /\ f' = f + 1
    /\ UNCHANGED <<dirs, files, entries, i, parsed, deps, k, j, found, stdout, stderr, result>>

\* validate_file(file)?;
ValidateFileStep ==
    /\ pc = "file"
    /\ f <= Len(files)
    /\ LET r == ValidateFile(files[f]) IN
       /\ calls' = Append(calls, Call("validate_file", files[f], f, r))
       /\ IF r.ok
          THEN pc' = "parse" /\ result' = result
          ELSE pc' = "done" /\ result' = r.err
    /\ UNCHANGED <<dirs, files, entries, i, f, parsed, deps, k, j, found, stdout, stderr>>

\* let deps = get_pe_dependencies(file)?;
ParseStep ==
    /\ pc = "parse"
    /\ LET r == GetPeDependencies(files[f]) IN
       /\ calls' = Append(calls, Call("get_pe_dependencies", files[f], f, r))
       /\ parsed' = r
       /\ IF r.ok
          THEN pc' = "deps" /\ result' = result
          ELSE pc' = "done" /\ result' = r.err
    /\ UNCHANGED <<dirs, files, entries, i, f, deps, k, j, found, stdout, stderr>>

\* Mutant of the empty-list branch: the `continue` is missing.
NotDynamicFallsThrough ==
    /\ pc = "deps"
    /\ parsed.deps = << >>
    /\ stderr' = Append(stderr, Notice(files[f]))
    /\ stdout' = Append(stdout, Header(files[f]))
    /\ calls' = Append(calls, Call("check_dependencies", files[f], f, parsed.deps))
    /\ deps' = parsed.deps
    /\ k' = 1
    /\ j' = 1
    /\ found' = FALSE
    /\ pc' = "check"
    /\ UNCHANGED <<dirs, files, entries, i, f, parsed, result>>

\* if deps.is_empty() { eprintln!(...); continue; }
NotDynamic ==
    /\ pc = "deps"
    /\ parsed.deps = << >>
    /\ stderr' = Append(stderr, Notice(files[f]))
    /\ f' = f + 1
    /\ pc' = "file"
    /\ UNCHANGED <<dirs, files, entries, i, parsed, deps, k, j, found, stdout, result, calls>>

\* println!("{}:", file.display()); check_dependencies(&deps, &config.dirs);
PrintHeader ==
    /\ pc = "deps"
    /\ parsed.deps # << >>
    /\ stdout' = Append(stdout, Header(files[f]))
    /\ calls' = Append(calls, Call("check_dependencies", files[f], f, parsed.deps))
    /\ deps' = parsed.deps
    /\ k' = 1
    /\ j' = 1
    /\ found' = FALSE
    /\ pc' = "check"
    /\ UNCHANGED <<dirs, files, entries, i, f, parsed, stderr, result>>

\* check_dependencies, one iteration of `for dir in dirs`.
CheckDir ==
    /\ pc = "check"
    /\ k <= Len(deps)
    /\ j <= Len(dirs)
    /\ IF DepPathIsFile(dirs[j], deps[k])
       THEN /\ stdout' = Append(stdout,
                    DepLine(IF ~found THEN deps[k] ELSE "", MaxLen(deps), dirs[j]))
            /\ found' = TRUE
       ELSE UNCHANGED <<stdout, found>>
    /\ j' = j + 1
    /\ UNCHANGED <<dirs, files, entries, pc, i, f, parsed, deps, k, stderr, result, calls>>

\* Mutant of the end of the directory loop: no "Not found" line.
CheckDepEndSilent ==
    /\ pc = "check"
    /\ k <= Len(deps)
    /\ j > Len(dirs)
    /\ k' = k + 1
    /\ j' = 1
    /\ found' = FALSE
    /\ UNCHANGED <<dirs, files, entries, pc, i, f, parsed, deps, stdout, stderr, result, calls>>

\* Mutant of the end of the directory loop: a missing dependency is fatal.
CheckDepEndFatal ==
    /\ pc = "check"
    /\ k <= Len(deps)
    /\ j > Len(dirs)
    /\ stdout' = IF ~found
                 THEN Append(stdout, DepLine(deps[k], MaxLen(deps), "Not found"))
                 ELSE stdout
    /\ IF ~found
       THEN /\ result' = Err("FileError", <<deps[k], "Not found">>)
            /\ pc' = "done"
            /\ UNCHANGED <<k, j, found>>
       ELSE /\ k' = k + 1
            /\ j' = 1
            /\ found' = FALSE
            /\ UNCHANGED <<pc, result>>
    /\ UNCHANGED <<dirs, files, entries, i, f, parsed, deps, stderr, calls>>

\* check_dependencies, after `for dir in dirs`: if !found { println!(Not found) }
CheckDepEnd ==
    /\ pc = "check"
    /\ k <= Len(deps)
    /\ j > Len(dirs)
    /\ stdout' = IF ~found
                 THEN Append(stdout, DepLine(deps[k], MaxLen(deps), "Not found"))
                 ELSE stdout
    /\ k' = k + 1
    /\ j' = 1
    /\ found' = FALSE
    /\ UNCHANGED <<dirs, files, entries, pc, i, f, parsed, deps, stderr, result, calls>>

\* check_dependencies returns: the file loop goes on with the next file.
CheckReturn ==
    /\ pc = "check"
    /\ k > Len(deps)
    /\ f' = f + 1
    /\ pc' = "file"
    /\ UNCHANGED <<dirs, files, entries, i, parsed, deps, k, j, found,
                   stdout, stderr, result, calls>>

\* The file loop is exhausted: Ok(())
RunOk ==
    /\ pc = "file"
    /\ f > Len(files)
    /\ result' = Ok
    /\ pc' = "done"
    /\ UNCHANGED <<dirs, files, entries, i, f, parsed, deps, k, j, found,
                   stdout, stderr, calls>>

Next ==
    \/ ValidateDirStep
    \/ DirsValidated
    \/ ValidateFileStep
    \/ ParseStep
    \/ NotDynamic
    \/ PrintHeader
    \/ CheckDir
    \/ CheckDepEnd
    \/ CheckReturn
    \/ RunOk

Spec == Init /\ [][Next]_vars

\* check_dependencies on its own: any dependency list, any directory contents.
InitResolve ==
    /\ dirs \in SeqsUpTo(SearchDirs, MaxDirs)
    /\ deps \in SeqsUpTo(Names, MaxDeps)
    /\ entries \in [SearchDirs -> [Names -> Kinds]]
    /\ files = << >>
    /\ pc = "check"
    /\ i = Len(dirs) + 1
    /\ f = 1
    /\ parsed = [ok |-> TRUE, deps |-> deps]
    /\ k = 1
    /\ j = 1
    /\ found = FALSE
    /\ stdout = << >>
    /\ stderr = << >>
    /\ result = Running
    /\ calls = << >>

NextResolve ==
    \/ CheckDir
    \/ CheckDepEnd

SpecResolve == InitResolve /\ [][NextResolve]_vars

\* ------------------------------------------------- reading the output

IndexSeq(n) == [m \in 1..n |-> m]

\* The dependency lines among the printed lines, in print order.
DepLines == SelectSeq(stdout, LAMBDA l : l.kind = "dep")

\* A group starts at each line that shows a dependency name; the lines with a
\* blank name that follow it belong to the same group.
GroupStarts == SelectSeq(IndexSeq(Len(DepLines)), LAMBDA n : DepLines[n].label # "")

Group(g) ==
    SubSeq(DepLines, GroupStarts[g],
           IF g < Len(GroupStarts) THEN GroupStarts[g + 1] - 1 ELSE Len(DepLines))

\* The directories a group reports, in print order.
Reported(g) ==
    LET found_lines == SelectSeq(Group(g), LAMBDA l : l.target # "Not found")
    IN [n \in 1..Len(found_lines) |-> found_lines[n].target]

\* The subsequence of dirs in which the entry named dep is a regular file.
Matches(dep) == SelectSeq(dirs, LAMBDA d : JoinedKind(d, dep) = "file")

\* check_dependencies has returned.
CheckDone == pc = "check" /\ k > Len(deps)

\* ------------------------------------------------------------- claims

\* C1: for every dependency the resolver has finished with, the directories
\* it reported are exactly the subsequence of dirs, in the order given, in
\* which dir/dep is a regular file: every match is reported, not only the
\* first, and a directory where the entry is a directory or absent is not.
C1_ReportedAreExactlyTheMatches ==
    pc = "check" =>
        /\ Len(GroupStarts) >= k - 1
        /\ \A g \in 1..(k - 1) : Reported(g) = Matches(deps[g])

\* C1 witness: the resolver has returned, some dependency was found in two
\* directories, and in some searched directory the entry named after a
\* dependency is itself a directory.
C1_Witness ==
    /\ CheckDone
    /\ \E g \in 1..Len(deps) : Len(Matches(deps[g])) >= 2
    /\ \E g \in 1..Len(deps) : \E n \in 1..Len(dirs) : JoinedKind(dirs[n], deps[g]) = "dir"

\* C2: the resolver prints one group per element of deps, in the order of
\* deps (a repeated name gets a group per occurrence); a finished group is
\* one line per matching directory, or exactly one "Not found" line when no
\* directory matches; and the resolver never fails: a dependency that is not
\* found leaves run's result untouched and the scan goes on.
C2_OneGroupPerDependency ==
    pc = "check" =>
        /\ result = Running
        /\ Len(GroupStarts) = (k - 1) + (IF found THEN 1 ELSE 0)
        /\ CheckDone => Len(GroupStarts) = Len(deps)
        /\ \A g \in 1..(k - 1) :
              /\ Group(g)[1].label = deps[g]
              /\ IF Matches(deps[g]) = << >>
                 THEN Group(g) = <<DepLine(deps[g], MaxLen(deps), "Not found")>>
                 ELSE /\ Len(Group(g)) = Len(Matches(deps[g]))
                      /\ \A n \in 1..Len(Group(g)) : Group(g)[n].target # "Not found"

\* C2 witness: the resolver has returned for a list that names the same
\* dependency twice, the first of them found nowhere, and a later dependency
\* was still resolved.
C2_Witness ==
    /\ CheckDone
    /\ Len(deps) >= 2
    /\ deps[1] = deps[2]
    /\ Matches(deps[1]) = << >>
    /\ Len(dirs) >= 1
    /\ Len(GroupStarts) = Len(deps)

\* ------------------------------------------- the run, seen from outside

IsPrefix(a, b) == Len(a) <= Len(b) /\ SubSeq(b, 1, Len(a)) = a

IsFileCall(c) == c.fn \in {"validate_file", "get_pe_dependencies", "check_dependencies"}

\* The calls run has made on behalf of input files, as (function, path, index).
FileCalls ==
    LET cs == SelectSeq(calls, IsFileCall)
    IN [n \in 1..Len(cs) |-> <<cs[n].fn, cs[n].arg, cs[n].idx>>]

DirsAllValid == \A n \in 1..Len(dirs) : PathKind(dirs[n]) = "dir"

\* The file is a regular file that opens, maps and parses.
FileParses(p) == PathKind(p) = "file" /\ OpenMapOk(p) /\ PEParse(p).ok

\* The file parses and its image names no library.
Static(p) == FileParses(p) /\ PEParse(p).libraries = << >>

\* The file passes validation and then fails to open, map or parse.
ParseFails(p) == PathKind(p) = "file" /\ ~FileParses(p)

\* Index of the first input file that fails validation or parsing.
FirstFail ==
    IF \A n \in 1..Len(files) : FileParses(files[n])
    THEN Len(files) + 1
    ELSE CHOOSE n \in 1..Len(files) :
            /\ ~FileParses(files[n])
            /\ \A m \in 1..(n - 1) : FileParses(files[m])

\* The error the file at p must produce.
RefError(p) ==
    IF PathKind(p) # "file" THEN "FileError"
    ELSE IF ~OpenMapOk(p) THEN "IoError" ELSE "PeParseError"

\* The lines the resolver must print for one dependency.
RefGroup(dep, w) ==
    LET m == Matches(dep) IN
    IF m = << >> THEN <<DepLine(dep, w, "Not found")>>
    ELSE [n \in 1..Len(m) |-> DepLine(IF n = 1 THEN dep ELSE "", w, m[n])]

RECURSIVE RefResolve(_, _)
RefResolve(ds, w) ==
    IF ds = << >> THEN << >> ELSE RefGroup(Head(ds), w) \o RefResolve(Tail(ds), w)

\* What a file must put on stdout once it is processed to the end.
RefFileOut(p) ==
    IF ~FileParses(p) \/ Static(p) THEN << >>
    ELSE LET libs == PEParse(p).libraries IN <<Header(p)>> \o RefResolve(libs, MaxLen(libs))

\* What the first n files, all of which parse, must put on stdout and stderr.
RECURSIVE RefStdout(_)
RefStdout(n) == IF n = 0 THEN << >> ELSE RefStdout(n - 1) \o RefFileOut(files[n])

RECURSIVE RefStderr(_)
RefStderr(n) ==
    IF n = 0 THEN << >>
    ELSE RefStderr(n - 1) \o (IF Static(files[n]) THEN <<Notice(files[n])>> ELSE << >>)

\* The calls the file at index n must cause.
RefFileCalls(n) ==
    LET p == files[n] IN
    <<<<"validate_file", p, n>>>>
    \o (IF PathKind(p) = "file" THEN <<<<"get_pe_dependencies", p, n>>>> ELSE << >>)
    \o (IF FileParses(p) /\ ~Static(p) THEN <<<<"check_dependencies", p, n>>>> ELSE << >>)

RECURSIVE RefCalls(_)
RefCalls(n) == IF n = 0 THEN << >> ELSE RefCalls(n - 1) \o RefFileCalls(n)

Min(a, b) == IF a <= b THEN a ELSE b

\* C3: every directory of config.dirs is validated before anything is done
\* for an input file; when a directory is not an existing directory, run
\* ends with InvalidDirectory, no file is validated, parsed or resolved, and
\* nothing is printed.
C3_DirsValidatedBeforeFiles ==
    /\ \A n \in 1..Len(calls) : IsFileCall(calls[n]) =>
          /\ n > Len(dirs)
          /\ \A m \in 1..Len(dirs) :
                /\ calls[m].fn = "validate_dir"
                /\ calls[m].arg = dirs[m]
                /\ PathKind(dirs[m]) = "dir"
    /\ ~DirsAllValid =>
          /\ FileCalls = << >>
          /\ stdout = << >>
          /\ stderr = << >>
          /\ pc \in {"dirs", "done"}
          /\ pc = "done" => result.tag = "Err" /\ result.kind = "InvalidDirectory"

\* C3 witness: run has ended with InvalidDirectory on the second directory,
\* the first being valid, with input files waiting.
C3_Witness ==
    /\ pc = "done"
    /\ result.tag = "Err"
    /\ result.kind = "InvalidDirectory"
    /\ Len(dirs) >= 2
    /\ PathKind(dirs[1]) = "dir"
    /\ Len(files) >= 1
    /\ FileParses(files[1])

\* C4: validate_file returns Ok exactly for an existing regular file and
\* Err(FileError) otherwise; the parser is invoked for a file only right
\* after validate_file succeeded for that same file, and after a failed
\* validation nothing more is invoked and run returns that error.
C4_ParserOnlyAfterValidateFile ==
    \A n \in 1..Len(calls) :
        /\ calls[n].fn = "validate_file" =>
              /\ calls[n].out.ok <=> PathKind(calls[n].arg) = "file"
              /\ ~calls[n].out.ok =>
                    /\ calls[n].out.err.kind = "FileError"
                    /\ n = Len(calls)
                    /\ pc = "done"
                    /\ result = calls[n].out.err
        /\ calls[n].fn = "get_pe_dependencies" =>
              /\ n > 1
              /\ calls[n - 1].fn = "validate_file"
              /\ calls[n - 1].idx = calls[n].idx
              /\ calls[n - 1].arg = calls[n].arg
              /\ calls[n - 1].out.ok
              /\ PathKind(calls[n].arg) = "file"

\* C4 witness: the first file was validated and parsed, the second is a
\* directory, and run has ended with its FileError.
C4_Witness ==
    /\ pc = "done"
    /\ Len(files) = 2
    /\ FileParses(files[1])
    /\ PathKind(files[2]) = "dir"
    /\ result.tag = "Err"
    /\ result.kind = "FileError"
    /\ \E n \in 1..Len(calls) : calls[n].fn = "get_pe_dependencies"

C7_ParseErrorIsTerminal ==
    \A n \in 1..Len(calls) :
        (calls[n].fn = "get_pe_dependencies" /\ ParseFails(calls[n].arg)) =>
            /\ DOMAIN calls[n].out = {"ok", "err"}
            /\ ~calls[n].out.ok
            /\ calls[n].out.err.kind \in {"IoError", "PeParseError"}
            /\ n = Len(calls)
            /\ pc = "done"
            /\ result = calls[n].out.err
            /\ stdout = RefStdout(calls[n].idx - 1)
            /\ stderr = RefStderr(calls[n].idx - 1)

\* C7 witness: the first file was printed with its dependencies, the second
\* failed in PE parsing, and run has ended with PeParseError.
C7_Witness ==
    /\ pc = "done"
    /\ result.tag = "Err"
    /\ result.kind = "PeParseError"
    /\ f = 2
    /\ Len(dirs) >= 1
    /\ stdout # << >>
    /\ stdout = RefStdout(1)

\* C9: when run has returned, it returned Ok exactly when every search
\* directory is an existing directory and every input file is a regular
\* file that opens and parses, whatever the number of dependencies that
\* were not found; otherwise it returned an error.
C9_OkIffAllValidAndParsed ==
    pc = "done" =>
        /\ result.tag \in {"Ok", "Err"}
        /\ result = Ok <=> (DirsAllValid /\ \A n \in 1..Len(files) : FileParses(files[n]))

\* C9 witness: run returned Ok although a dependency was found nowhere.
C9_Witness ==
    /\ pc = "done"
    /\ result = Ok
    /\ \E n \in 1..Len(stdout) : stdout[n].kind = "dep" /\ stdout[n].target = "Not found"

\* C10: files are processed in list order, one completely before the next:
\* the calls made for files are always a prefix of validate, parse, resolve
\* for file 1, then for file 2, ..., up to and including the first file that
\* fails; stdout holds the complete output of the files before the current
\* one; when run has returned, nothing was invoked or printed for a file
\* after the first failing one, the output of the files before it is all
\* there, and run returned the failing file's error.
C10_FilesInOrderStopAtFirstFailure ==
    /\ IsPrefix(FileCalls, RefCalls(Min(FirstFail, Len(files))))
    /\ pc \in {"file", "parse", "deps"} => stdout = RefStdout(Min(f - 1, Len(files)))
    /\ pc = "check" =>
          /\ IsPrefix(RefStdout(f - 1) \o <<Header(files[f])>>, stdout)
          /\ IsPrefix(stdout, RefStdout(f))
    /\ (pc = "done" /\ DirsAllValid) =>
          /\ FileCalls = RefCalls(Min(FirstFail, Len(files)))
          /\ stdout = RefStdout(FirstFail - 1)
          /\ stderr = RefStderr(FirstFail - 1)
          /\ FirstFail <= Len(files) =>
                /\ f = FirstFail
                /\ result.tag = "Err"
                /\ result.kind = RefError(files[FirstFail])

\* C10 witness: the first file fails in parsing, a file that would parse
\* follows it, and run has returned.
C10_Witness ==
    /\ pc = "done"
    /\ DirsAllValid
    /\ Len(files) = 2
    /\ FirstFail = 1
    /\ ParseFails(files[1])
    /\ FileParses(files[2])
    /\ ~Static(files[2])

====
